---- MODULE Spec2Model ----
(***************************************************************************)
(* The IR metadata extractor (src/main.py) and the reconciler              *)
(* (src/scripts.py) as state machines.                                     *)
(*                                                                         *)
(* Text values (document text, model replies' field values, locations)     *)
(* are sequences of atoms: a word, or one of the separators " ", ","       *)
(* and "\n".  File names are sequences of characters.  A model reply is    *)
(* a sequence of JSON-level tokens.                                        *)
(***************************************************************************)
EXTENDS Integers, Sequences, FiniteSets, TLC

VARIABLES
    pc,                 \* position of the running script
    tree,               \* MY_DOCS_FOLDER / input_folder: the set of file paths
    disk,               \* RESULTS_FILE: Absent, or the sequence of rows in it
    rows,               \* main_process: rows
    todo,               \* os.walk: the files not yet yielded
    root,               \* os.walk: the directory being listed
    cur,                \* the path (root, fname) of the document in hand
    doc,                \* what Document(doc_path) gave for it
    text,               \* extract_text_from_docx's result
    response,           \* what llm.invoke gave for it
    meta,               \* analyze_ir_content's result
    calls,              \* llm.invoke calls made for the document in hand
    processed,          \* the documents the loop has taken up, in order
    failed,             \* the except clause of __main__ was entered
    input_files,        \* scripts.py: input_files
    processed_files,    \* scripts.py: processed_files
    missing_in_results, \* scripts.py: missing_in_results
    extra_in_results,   \* scripts.py: extra_in_results
    unprocessed,        \* scripts.py: the files copied to unprocessed_folder
    pending,            \* scripts.py: the files the copy loop has yet to visit
    location,           \* clean_location's argument
    cleaned             \* clean_location's result

vars == <<pc, tree, disk, rows, todo, root, cur, doc, text, response, meta,
          calls, processed, failed, input_files, processed_files,
          missing_in_results, extra_in_results, unprocessed, pending,
          location, cleaned>>

extractorVars == <<rows, todo, root, cur, doc, text, response, meta, calls,
                   processed, failed>>
reconcilerVars == <<input_files, processed_files, missing_in_results,
                    extra_in_results, unprocessed, pending>>
cleanVars == <<location, cleaned>>

----------------------------------------------------------------------------
(* Bounds *)

MaxFiles == 3       \* files in the input tree
MaxLocLen == 4      \* atoms in a location handed to clean_location
MaxReplyLen == 4    \* tokens in a free-form model reply
MaxResultRows == 2  \* rows of the results file the reconciler is handed

MAX_TEXT_LENGTH == 5000

----------------------------------------------------------------------------
(* Sequences *)

Range(s) == {s[i] : i \in 1..Len(s)}

SeqsUpTo(S, n) == UNION {[1..k -> S] : k \in 0..n}

Last(s) == s[Len(s)]

Front(s) == SubSeq(s, 1, Len(s) - 1)

IsPrefix(s, t) == Len(s) <= Len(t) /\ SubSeq(t, 1, Len(s)) = s

\* s.endswith(suf)
EndsWith(s, suf) ==
    /\ Len(suf) <= Len(s)
    /\ SubSeq(s, Len(s) - Len(suf) + 1, Len(s)) = suf

----------------------------------------------------------------------------
(* Text: str.strip, str.split, "\n".join *)

IsSpace(a) == a \in {" ", "\n"}

RECURSIVE lstrip(_)
lstrip(s) ==
    IF s = <<>> THEN <<>>
    ELSE IF IsSpace(Head(s)) THEN lstrip(Tail(s)) ELSE s

RECURSIVE rstrip(_)
rstrip(s) ==
    IF s = <<>> THEN <<>>
    ELSE IF IsSpace(Last(s)) THEN rstrip(Front(s)) ELSE s

strip(s) == rstrip(lstrip(s))

\* "\n".join(lines)
RECURSIVE join(_)
join(lines) ==
    IF lines = <<>> THEN <<>>
    ELSE IF Len(lines) = 1 THEN lines[1]
    ELSE lines[1] \o <<"\n">> \o join(Tail(lines))

----------------------------------------------------------------------------
(* clean_location (main.py:68-74) *)

\* str.lower() of an atom, for the atoms the model uses
lower(a) ==
    CASE a = "Road" -> "road"
      [] a = "MAIN" -> "main"
      [] OTHER -> a

\* the alternation (highway|road|street|main|lane) under re.IGNORECASE
Keywords == {"highway", "road", "street", "main", "lane"}

IsKeyword(a) == lower(a) \in Keywords

\* \w: an atom that is a word is made of word characters only
IsWordAtom(a) == a \notin {" ", ",", "\n"}

\* \b(highway|road|street|main|lane)\b matches at atom i of s: the atom is
\* a keyword and neither neighbour is a word (two adjacent words make one
\* longer word, in which the keyword is not a whole word)
KeywordAt(s, i) ==
    /\ IsKeyword(s[i])
    /\ (i = 1 \/ ~IsWordAtom(s[i - 1]))
    /\ (i = Len(s) \/ ~IsWordAtom(s[i + 1]))

\* re.sub(r"\b(...)\b.*", "", s) from atom i on.  "." does not match a
\* newline (the call passes no re.DOTALL), so a match ends at the end of
\* its line, and re.sub goes on to replace the later matches too.
RECURSIVE resub(_, _, _)
resub(s, i, inMatch) ==
    IF i > Len(s) THEN <<>>
    ELSE IF s[i] = "\n" THEN <<"\n">> \o resub(s, i + 1, FALSE)
    ELSE IF inMatch THEN resub(s, i + 1, TRUE)
    ELSE IF KeywordAt(s, i) THEN resub(s, i + 1, TRUE)
    ELSE <<s[i]>> \o resub(s, i + 1, FALSE)

\* location.split(",")[-1]
AfterLastComma(s) ==
    LET commas == {i \in 1..Len(s) : s[i] = ","}
        k == CHOOSE i \in commas : \A j \in commas : j <= i
    IN  SubSeq(s, k + 1, Len(s))

clean_location(loc) ==
    IF loc = <<>> THEN <<>>
    ELSE IF "," \in Range(loc) THEN strip(AfterLastComma(loc))
    ELSE strip(resub(loc, 1, FALSE))

----------------------------------------------------------------------------
(* The model's reply and its parsing (main.py:104-133) *)

Keys == {"state", "location", "department", "audit_conducted_year",
         "financial_year"}

Unknown == <<"Unknown">>
UnknownDepartment == <<"Unknown", " ", "Department">>

\* the five-tuple returned at lines 78, 130 and 133
Sentinels ==
    [state |-> Unknown, location |-> Unknown, department |-> UnknownDepartment,
     audit_conducted_year |-> Unknown, financial_year |-> Unknown]

\* A JSON value of a member: a string, or null
Str(s) == [type |-> "str", val |-> s]
Null == [type |-> "null", val |-> <<>>]

\* (mutation of GetDefault: one default for every key)
GetDefault_AllUnknown(key) == Str(Unknown)

\* the second argument of each parsed.get(key, ...)
GetDefault(key) ==
    IF key = "department" THEN Str(UnknownDepartment) ELSE Str(Unknown)

\* A reply token is "{", "}", "w" (a word of prose), "n" (a JSON number)
\* or "m" (a member: a "key": value pair of an object, with the comma that
\* separates it from the next).
Tok(t) == [t |-> t, key |-> "", value |-> Null]
Member(k, v) == [t |-> "m", key |-> k, value |-> v]

\* json.loads(content): the value, or JSONDecodeError.  A reply is valid
\* JSON when it is one number or one object of members and nothing else.
IsJSONObject(toks) ==
    /\ Len(toks) >= 2
    /\ toks[1].t = "{"
    /\ toks[Len(toks)].t = "}"
    /\ \A i \in 2..(Len(toks) - 1) : toks[i].t = "m"

IsJSONNumber(toks) == Len(toks) = 1 /\ toks[1].t = "n"

IsJSON(toks) == IsJSONNumber(toks) \/ IsJSONObject(toks)

\* re.search(r'\{.*\}', content, re.DOTALL): ".*" is greedy, so the match
\* runs from the first "{" to the last "}" of the reply
HasBraceMatch(toks) ==
    \E i, j \in 1..Len(toks) : i < j /\ toks[i].t = "{" /\ toks[j].t = "}"

BraceMatch(toks) ==
    LET opens == {i \in 1..Len(toks) : toks[i].t = "{"}
        closes == {j \in 1..Len(toks) : toks[j].t = "}"}
        i == CHOOSE x \in opens : \A y \in opens : x <= y
        j == CHOOSE x \in closes : \A y \in closes : y <= x
    IN  SubSeq(toks, i, j)

\* parsed.get(key, default) on the dict json.loads built from an object: of
\* two members with one key the later one stays
DictGet(obj, key, default) ==
    LET at == {i \in 2..(Len(obj) - 1) : obj[i].key = key}
    IN  IF at = {} THEN default
        ELSE obj[CHOOSE i \in at : \A j \in at : j <= i].value

\* lines 114-119 and 124-129: the five parsed.get(...).strip() and the
\* location cleanup.  .strip() of a value that is no string, and .get of a
\* value that is no dict, raise AttributeError.
FieldsRaise(parsed) ==
    \/ IsJSONNumber(parsed)
    \/ \E k \in Keys : DictGet(parsed, k, GetDefault(k)).type # "str"

Fields(parsed) ==
    [k \in Keys |->
        LET v == strip(DictGet(parsed, k, GetDefault(k)).val)
        IN  IF k = "location" THEN clean_location(v) ELSE v]

\* What llm.invoke does when called: raises, or returns a reply
Raises == [kind |-> "raise", content |-> <<>>]
Reply(toks) == [kind |-> "reply", content |-> toks]
NoResponse == [kind |-> "none", content |-> <<>>]

\* (mutation of IsEmptyText: the guard of line 77 is missing)
IsEmptyText_NoGuard(doc_text) == FALSE

\* the "if not doc_text" of line 77
IsEmptyText(doc_text) == doc_text = <<>>

\* lines 112-130: the reply's content to the five fields
ParseContent(content) ==
    IF IsJSON(content) THEN
        IF FieldsRaise(content) THEN Sentinels                  \* to line 131
        ELSE Fields(content)                                    \* line 119
    ELSE IF HasBraceMatch(content) THEN                         \* line 122
        IF ~IsJSON(BraceMatch(content)) THEN Sentinels          \* 123 raises
        ELSE IF FieldsRaise(BraceMatch(content)) THEN Sentinels \* to line 131
        ELSE Fields(BraceMatch(content))                        \* line 129
    ELSE Sentinels                                              \* line 130

\* analyze_ir_content(doc_text), given what llm.invoke does when called
analyze_ir_content(doc_text, resp) ==
    IF IsEmptyText(doc_text) THEN Sentinels                     \* line 78
    ELSE IF resp.kind = "raise" THEN Sentinels                  \* line 133
    ELSE ParseContent(resp.content)

\* (mutation of InvokeCount: a failed call is tried again)
InvokeCount_Retry(doc_text) == IF IsEmptyText(doc_text) THEN 0 ELSE 2

\* the llm.invoke calls analyze_ir_content(doc_text) makes
InvokeCount(doc_text) == IF IsEmptyText(doc_text) THEN 0 ELSE 1

----------------------------------------------------------------------------
(* File names and the input tree *)

\* str.lower() of a character, for the characters the model uses
lowerChar(c) ==
    CASE c = "D" -> "d"
      [] c = "O" -> "o"
      [] c = "C" -> "c"
      [] c = "X" -> "x"
      [] OTHER -> c

\* fname.lower()
lowerName(name) == [i \in 1..Len(name) |-> lowerChar(name[i])]

DotDocx == <<".", "d", "o", "c", "x">>

\* os.path.splitext(f)[0]: f up to its last dot, unless only dots precede it
splitext0(name) ==
    LET dots == {i \in 1..Len(name) : name[i] = "."}
        d == CHOOSE i \in dots : \A j \in dots : j <= i
    IN  IF dots = {} THEN name
        ELSE IF \E i \in 1..(d - 1) : name[i] # "." THEN SubSeq(name, 1, d - 1)
        ELSE name

\* A path is <<fname>> for a file of the input folder itself and
\* <<dirname, fname>> for a file of a subfolder.
F_a_docx == <<"a", ".", "d", "o", "c", "x">>
F_b_DOCX == <<"b", ".", "D", "O", "C", "X">>
F_c_docx == <<"c", ".", "d", "o", "c", "x">>
F_n_txt == <<"n", ".", "t", "x", "t">>
D_s == <<"s">>
D_d_docx == <<"d", ".", "d", "o", "c", "x">>

Paths == {<<F_a_docx>>, <<F_b_DOCX>>, <<F_n_txt>>, <<D_s, F_c_docx>>,
          <<D_d_docx, F_n_txt>>}

Trees == {t \in SUBSET Paths : Cardinality(t) <= MaxFiles}

fnameOf(p) == p[Len(p)]

\* os.listdir(folder): the names of the folder's files and subfolders
listdir(t) == {p[1] : p \in t}

IsDir(t, name) == \E p \in t : Len(p) = 2 /\ p[1] = name

----------------------------------------------------------------------------
(* The results file and the table *)

Row(fname, m) ==
    [Filename |-> fname, State |-> m.state, Location |-> m.location,
     Department |-> m.department,
     AuditConductedYear |-> m.audit_conducted_year,
     FinancialYear |-> m.financial_year]

\* the placeholder row of lines 140-147 and 192-199
BlankRow ==
    [Filename |-> <<>>, State |-> <<>>, Location |-> <<>>,
     Department |-> <<>>, AuditConductedYear |-> <<>>,
     FinancialYear |-> <<>>]

Absent == [exists |-> FALSE, rows |-> <<>>]
File(table) == [exists |-> TRUE, rows |-> table]

\* (mutation of AppendRow: the table is rebuilt from the new row alone)
AppendRow_OnlyNew(table, fname, m) == <<Row(fname, m)>>

\* rows.append({...}) of lines 161-168
AppendRow(table, fname, m) == Append(table, Row(fname, m))

\* DataFrame.to_excel(RESULTS_FILE): the file becomes the table, or the
\* call raises (the file cannot be opened for writing) and the file stays
\* as it was; control then reaches the except clause at line 190.
to_excel(table, next) ==
    \/ /\ disk' = File(table)
       /\ pc' = next
       /\ failed' = failed
    \/ /\ disk' = disk
       /\ pc' = "except"
       /\ failed' = TRUE

----------------------------------------------------------------------------
(* extract_text_from_docx (main.py:55-66) *)

Unreadable == [read |-> "raise", paragraphs |-> <<>>]
Docx(paras) == [read |-> "ok", paragraphs |-> paras]
NoDoc == [read |-> "none", paragraphs |-> <<>>]

\* what Document(doc_path) can give: it raises, or a list of paragraphs
Docs ==
    {Unreadable, Docx(<<>>), Docx(<< <<" ">>, <<>> >>), Docx(<< <<"t">> >>),
     Docx(<< <<" ", "t", " ">>, <<" ">>, <<"t">> >>)}

extract_text_from_docx(d) ==
    IF d.read # "ok" THEN <<>>                                  \* line 66
    ELSE LET stripped == [i \in 1..Len(d.paragraphs) |-> strip(d.paragraphs[i])]
             lines == SelectSeq(stripped, LAMBDA l : l # <<>>)
             extracted_text == join(lines)
         IN  IF Len(extracted_text) > MAX_TEXT_LENGTH
             THEN SubSeq(extracted_text, 1, MAX_TEXT_LENGTH)
             ELSE extracted_text

----------------------------------------------------------------------------
(* The replies the model gives *)

KeyOrder == <<"state", "location", "department", "audit_conducted_year",
              "financial_year">>

\* Two string values per field: one as it is returned, one that needs
\* trimming (and, for the location, cleaning)
Plain(k) ==
    CASE k = "state" -> <<"Goa">>
      [] k = "location" -> <<"Pune">>
      [] k = "department" -> <<"Health", " ", "Department">>
      [] k = "audit_conducted_year" -> <<"2021">>
      [] k = "financial_year" -> <<"2020-2021">>

Padded(k) ==
    CASE k = "state" -> <<" ", "Kerala", "\n">>
      [] k = "location" -> <<" ", "MG", " ", "Road", " ", "Extension">>
      [] k = "department" -> <<" ", "Unknown", " ", "Department">>
      [] k = "audit_conducted_year" -> <<"Unviable", " ">>
      [] k = "financial_year" -> <<"\n", "Unviable">>

\* what a reply's object holds for a key: nothing, a string, or null
Choices == {"absent", "plain", "padded", "null"}

MemberOf(k, c) ==
    CASE c = "absent" -> <<>>
      [] c = "plain" -> <<Member(k, Str(Plain(k)))>>
      [] c = "padded" -> <<Member(k, Str(Padded(k)))>>
      [] c = "null" -> <<Member(k, Null)>>

\* the object whose members are chosen by f, one choice per key
ObjectOf(f) ==
    <<Tok("{")>> \o MemberOf(KeyOrder[1], f[KeyOrder[1]])
                 \o MemberOf(KeyOrder[2], f[KeyOrder[2]])
                 \o MemberOf(KeyOrder[3], f[KeyOrder[3]])
                 \o MemberOf(KeyOrder[4], f[KeyOrder[4]])
                 \o MemberOf(KeyOrder[5], f[KeyOrder[5]])
                 \o <<Tok("}")>>

ObjectReplies == {ObjectOf(f) : f \in [Keys -> Choices]}

\* free-form replies: prose, braces, numbers and members in any order
FreeTokens ==
    {Tok("{"), Tok("}"), Tok("w"), Tok("n"),
     Member("state", Str(<<"Goa">>)), Member("state", Str(<<"Kerala">>))}

FreeReplies == SeqsUpTo(FreeTokens, MaxReplyLen)

Responses == {Raises} \cup {Reply(c) : c \in ObjectReplies \cup FreeReplies}

\* what a batch run's documents are answered with: an exception, a bare
\* object, an object in prose, an object followed by a brace, prose alone
RunResponses ==
    {Raises,
     Reply(ObjectOf([k \in Keys |-> "plain"])),
     Reply(<<Tok("w"), Tok("{"), Member("state", Str(<<"Goa">>)), Tok("}")>>),
     Reply(<<Tok("{"), Member("state", Str(<<"Goa">>)), Tok("}"), Tok("}")>>),
     Reply(<<Tok("w")>>)}

----------------------------------------------------------------------------
(* The extractor: __main__ and main_process (main.py:135-199) *)

NoMeta == [k \in Keys |-> <<>>]

\* a run of the extractor starts with the results file absent, or left by
\* an earlier run
StaleRows == <<Row(F_a_docx, Sentinels), Row(F_n_txt, Sentinels)>>

ExtractorIdle ==
    /\ rows = <<>>
    /\ todo = {}
    /\ root = <<>>
    /\ cur = <<>>
    /\ doc = NoDoc
    /\ text = <<>>
    /\ response = NoResponse
    /\ meta = NoMeta
    /\ calls = 0
    /\ processed = <<>>
    /\ failed = FALSE

ReconcilerIdle ==
    /\ input_files = {}
    /\ processed_files = <<>>
    /\ missing_in_results = {}
    /\ extra_in_results = {}
    /\ unprocessed = {}
    /\ pending = {}

CleanIdle ==
    /\ location = <<>>
    /\ cleaned = <<>>

Init ==
    /\ pc = "main"
    /\ tree \in Trees
    /\ disk \in {Absent, File(<<>>), File(StaleRows)}
    /\ ExtractorIdle
    /\ ReconcilerIdle
    /\ CleanIdle

\* lines 183-189: create the results file when there is none
Main ==
    /\ pc = "main"
    /\ IF disk.exists
       THEN /\ pc' = "listdir"
            /\ UNCHANGED <<disk, failed>>
       ELSE to_excel(<<>>, "listdir")
    /\ UNCHANGED <<tree, rows, todo, root, cur, doc, text, response, meta,
                   calls, processed>>
    /\ UNCHANGED reconcilerVars
    /\ UNCHANGED cleanVars

\* line 137: the names of the input folder itself that end in .docx
docx_files(t) == {f \in listdir(t) : EndsWith(lowerName(f), DotDocx)}

\* lines 137-150
ListDir ==
    /\ pc = "listdir"
    /\ IF docx_files(tree) = {}
       THEN /\ to_excel(<<BlankRow>>, "exit")              \* lines 138-148
            /\ UNCHANGED todo
       ELSE /\ pc' = "walk"
            /\ todo' = tree
            /\ UNCHANGED <<disk, failed>>
    /\ UNCHANGED <<tree, rows, root, cur, doc, text, response, meta, calls,
                   processed>>
    /\ UNCHANGED reconcilerVars
    /\ UNCHANGED cleanVars

dirOf(p) == IF Len(p) = 1 THEN <<>> ELSE p[1]

\* os.walk is top-down: the input folder's own files, then each subfolder's
\* files, one folder after the other; the order within a folder is the
\* file system's
WalkYields(p) ==
    /\ p \in todo
    /\ IF \E q \in todo : dirOf(q) = <<>> THEN dirOf(p) = <<>>
       ELSE (\E q \in todo : dirOf(q) = root) => dirOf(p) = root

\* line 154
IsDocx(fname) == EndsWith(lowerName(fname), DotDocx)

\* lines 152-157: the next file of the walk
WalkTake ==
    /\ pc = "walk"
    /\ \E p \in todo :
        /\ WalkYields(p)
        /\ IsDocx(fnameOf(p))
        /\ todo' = todo \ {p}
        /\ root' = dirOf(p)
        /\ cur' = p
        /\ processed' = Append(processed, p)
    /\ pc' = "extract"
    /\ doc' = NoDoc
    /\ text' = <<>>
    /\ response' = NoResponse
    /\ meta' = NoMeta
    /\ calls' = 0
    /\ UNCHANGED <<tree, disk, rows, failed>>
    /\ UNCHANGED reconcilerVars
    /\ UNCHANGED cleanVars

\* lines 154-155: continue
WalkSkip ==
    /\ pc = "walk"
    /\ \E p \in todo :
        /\ WalkYields(p)
        /\ ~IsDocx(fnameOf(p))
        /\ todo' = todo \ {p}
        /\ root' = dirOf(p)
    /\ UNCHANGED <<pc, tree, disk, rows, cur, doc, text, response, meta,
                   calls, processed, failed>>
    /\ UNCHANGED reconcilerVars
    /\ UNCHANGED cleanVars

\* the walk is over
WalkEnd ==
    /\ pc = "walk"
    /\ todo = {}
    /\ pc' = "finish"
    /\ UNCHANGED <<tree, disk, rows, todo, root, cur, doc, text, response,
                   meta, calls, processed, failed>>
    /\ UNCHANGED reconcilerVars
    /\ UNCHANGED cleanVars

\* line 158
Extract ==
    /\ pc = "extract"
    /\ \E d \in Docs :
        /\ doc' = d
        /\ text' = extract_text_from_docx(d)
    /\ pc' = "analyze"
    /\ UNCHANGED <<tree, disk, rows, todo, root, cur, response, meta, calls,
                   processed, failed>>
    /\ UNCHANGED reconcilerVars
    /\ UNCHANGED cleanVars

\* line 159: analyze_ir_content(text), the model answering with one of rs
AnalyzeWith(rs, next) ==
    /\ \E r \in rs :
        /\ response' = IF InvokeCount(text) = 0 THEN NoResponse ELSE r
        /\ meta' = analyze_ir_content(text, r)
    /\ calls' = calls + InvokeCount(text)
    /\ pc' = next
    /\ UNCHANGED <<tree, disk, rows, todo, root, cur, doc, text, processed,
                   failed>>
    /\ UNCHANGED reconcilerVars
    /\ UNCHANGED cleanVars

Analyze ==
    /\ pc = "analyze"
    /\ AnalyzeWith(RunResponses, "append")

\* lines 161-168
AppendTheRow ==
    /\ pc = "append"
    /\ rows' = AppendRow(rows, fnameOf(cur), meta)
    /\ pc' = "to_excel"
    /\ UNCHANGED <<tree, disk, todo, root, cur, doc, text, response, meta,
                   calls, processed, failed>>
    /\ UNCHANGED reconcilerVars
    /\ UNCHANGED cleanVars

\* lines 170-171
Persist ==
    /\ pc = "to_excel"
    /\ to_excel(rows, "walk")
    /\ UNCHANGED <<tree, rows, todo, root, cur, doc, text, response, meta,
                   calls, processed>>
    /\ UNCHANGED reconcilerVars
    /\ UNCHANGED cleanVars

\* lines 173-178
Finish ==
    /\ pc = "finish"
    /\ IF rows = <<>>
       THEN to_excel(<<>>, "exit")
       ELSE /\ pc' = "exit"
            /\ UNCHANGED <<disk, failed>>
    /\ UNCHANGED <<tree, rows, todo, root, cur, doc, text, response, meta,
                   calls, processed>>
    /\ UNCHANGED reconcilerVars
    /\ UNCHANGED cleanVars

\* lines 190-199: the except clause writes the placeholder row; when that
\* to_excel raises too, the exception leaves the script
Except ==
    /\ pc = "except"
    /\ \/ /\ disk' = File(<<BlankRow>>)
          /\ pc' = "exit"
       \/ /\ disk' = disk
          /\ pc' = "traceback"
    /\ UNCHANGED <<tree, rows, todo, root, cur, doc, text, response, meta,
                   calls, processed, failed>>
    /\ UNCHANGED reconcilerVars
    /\ UNCHANGED cleanVars

ExtractorNext ==
    \/ Main
    \/ ListDir
    \/ WalkTake
    \/ WalkSkip
    \/ WalkEnd
    \/ Extract
    \/ Analyze
    \/ AppendTheRow
    \/ Persist
    \/ Finish
    \/ Except

----------------------------------------------------------------------------
(* The reconciler (scripts.py) *)

\* line 17: the names of the input folder that end in .docx
input_files_of(t) == {f \in listdir(t) : EndsWith(f, DotDocx)}

\* lines 21-22: pd.read_excel(...).iloc[:, 0].astype(str); a blank cell is
\* read as NaN, whose str is "nan"
astype_str(cell) == IF cell = <<>> THEN <<"n", "a", "n">> ELSE cell

\* lines 18 and 23
no_ext(names) == {splitext0(f) : f \in names}

\* (mutation of missing_of: the operands are exchanged)
missing_of_Swapped(inp, proc) == proc \ inp

\* line 26
missing_of(inp, proc) == inp \ proc

\* line 27
extra_of(inp, proc) == proc \ inp

\* line 41
IsMissing(file, missing) == splitext0(file) \in missing

\* lines 17-18; the script is started by hand, here once the extractor is over
RListDir ==
    /\ pc \in {"exit", "traceback", "r_start"}
    /\ input_files' = input_files_of(tree)
    /\ pc' = "r_read"
    /\ UNCHANGED <<tree, disk, processed_files, missing_in_results,
                   extra_in_results, unprocessed, pending>>
    /\ UNCHANGED extractorVars
    /\ UNCHANGED cleanVars

\* lines 21-23; read_excel raises when there is no results file
RRead ==
    /\ pc = "r_read"
    /\ IF disk.exists
       THEN /\ processed_files' =
                [i \in 1..Len(disk.rows) |-> astype_str(disk.rows[i].Filename)]
            /\ pc' = "r_compare"
       ELSE /\ pc' = "r_crash"
            /\ UNCHANGED processed_files
    /\ UNCHANGED <<tree, disk, input_files, missing_in_results,
                   extra_in_results, unprocessed, pending>>
    /\ UNCHANGED extractorVars
    /\ UNCHANGED cleanVars

\* lines 26-36: the two differences, written to the workbook
RCompare ==
    /\ pc = "r_compare"
    /\ missing_in_results' =
           missing_of(no_ext(input_files), no_ext(Range(processed_files)))
    /\ extra_in_results' =
           extra_of(no_ext(input_files), no_ext(Range(processed_files)))
    /\ pending' = input_files
    /\ pc' = "r_copy"
    /\ UNCHANGED <<tree, disk, input_files, processed_files, unprocessed>>
    /\ UNCHANGED extractorVars
    /\ UNCHANGED cleanVars

\* lines 39-44: one turn of the loop; shutil.copy2 raises for a folder
RCopy ==
    /\ pc = "r_copy"
    /\ \E file \in pending :
        /\ pending' = pending \ {file}
        /\ IF ~IsMissing(file, missing_in_results)
           THEN UNCHANGED <<pc, unprocessed>>
           ELSE IF IsDir(tree, file)
           THEN /\ pc' = "r_crash"
                /\ UNCHANGED unprocessed
           ELSE /\ unprocessed' = unprocessed \cup {file}
                /\ UNCHANGED pc
    /\ UNCHANGED <<tree, disk, input_files, processed_files,
                   missing_in_results, extra_in_results>>
    /\ UNCHANGED extractorVars
    /\ UNCHANGED cleanVars

\* lines 46-47
RDone ==
    /\ pc = "r_copy"
    /\ pending = {}
    /\ pc' = "r_done"
    /\ UNCHANGED <<tree, disk>>
    /\ UNCHANGED reconcilerVars
    /\ UNCHANGED extractorVars
    /\ UNCHANGED cleanVars

ReconcilerNext ==
    \/ RListDir
    \/ RRead
    \/ RCompare
    \/ RCopy
    \/ RDone

\* The extractor's run, and the reconciler's run on what it left
Next == ExtractorNext \/ ReconcilerNext

Spec == Init /\ [][Next]_vars

----------------------------------------------------------------------------
(* The reconciler on any input folder and any results file *)

ResultNames == {F_a_docx, F_b_DOCX, F_c_docx, <<"a">>, D_d_docx, <<>>}

ResultTables ==
    {[i \in 1..Len(ns) |-> Row(ns[i], Sentinels)] :
        ns \in SeqsUpTo(ResultNames, MaxResultRows)}

InitRecon ==
    /\ pc = "r_start"
    /\ tree \in Trees
    /\ disk \in {Absent} \cup {File(t) : t \in ResultTables}
    /\ ExtractorIdle
    /\ ReconcilerIdle
    /\ CleanIdle

SpecRecon == InitRecon /\ [][ReconcilerNext]_vars

----------------------------------------------------------------------------
(* analyze_ir_content on any text and any reply *)

InitAnalyze ==
    /\ pc = "a_call"
    /\ tree = {}
    /\ disk = Absent
    /\ rows = <<>>
    /\ todo = {}
    /\ root = <<>>
    /\ cur = <<F_a_docx>>
    /\ doc = NoDoc
    /\ text \in {extract_text_from_docx(d) : d \in Docs}
    /\ response = NoResponse
    /\ meta = NoMeta
    /\ calls = 0
    /\ processed = <<>>
    /\ failed = FALSE
    /\ ReconcilerIdle
    /\ CleanIdle

AnalyzeCall ==
    /\ pc = "a_call"
    /\ AnalyzeWith(Responses, "a_done")

SpecAnalyze == InitAnalyze /\ [][AnalyzeCall]_vars

----------------------------------------------------------------------------
(* clean_location on any location *)

LocAtoms == {"MG", "Road", "MAIN", "lane", " ", ",", "\n"}

InitClean ==
    /\ pc = "c_call"
    /\ tree = {}
    /\ disk = Absent
    /\ ExtractorIdle
    /\ ReconcilerIdle
    /\ location \in SeqsUpTo(LocAtoms, MaxLocLen)
    /\ cleaned = <<>>

CleanCall ==
    /\ pc = "c_call"
    /\ cleaned' = clean_location(location)
    /\ pc' = "c_done"
    /\ UNCHANGED <<tree, disk, location>>
    /\ UNCHANGED extractorVars
    /\ UNCHANGED reconcilerVars

SpecClean == InitClean /\ [][CleanCall]_vars

----------------------------------------------------------------------------
(* Properties *)

NamesOf(table) == [i \in 1..Len(table) |-> table[i].Filename]

FnamesOf(paths) == [i \in 1..Len(paths) |-> fnameOf(paths[i])]

TheSentinels ==
    [state |-> <<"Unknown">>,
     location |-> <<"Unknown">>,
     department |-> <<"Unknown", " ", "Department">>,
     audit_conducted_year |-> <<"Unknown">>,
     financial_year |-> <<"Unknown">>]

\* the loop has a document in hand whose row is not yet in the file
InHand == pc \in {"extract", "analyze", "append", "to_excel"}

\* the documents the loop is through with
Done == IF InHand THEN Front(processed) ELSE processed

\* the file after each document, and each step's effect on the file
C1_FileHoldsDone ==
    (~failed /\ Done # <<>>) =>
        /\ disk.exists
        /\ NamesOf(disk.rows) = FnamesOf(Done)
        /\ IsPrefix(disk.rows, rows)
        /\ Len(rows) - Len(disk.rows) <= 1
        /\ (pc # "to_excel" => disk.rows = rows)

C1_OnlyAppended ==
    (~failed' /\ Done # <<>>) =>
        /\ IsPrefix(disk.rows, disk'.rows)
        /\ Len(disk'.rows) >= Len(disk.rows)

\* C1: in a run that has not entered the except clause, once a document has
\* been processed the results file holds exactly the rows of the documents
\* processed so far, in processing order; the file is a prefix of the table
\* in memory and at most one row (the document in hand) behind it; and from
\* then on each write only appends to the file, so its row count never
\* decreases.
C1_ResultsFileTracksRows == []C1_FileHoldsDone /\ [][C1_OnlyAppended]_vars

\* three documents taken up, two of them in the file, the third in hand
C1_Witness ==
    /\ ~failed
    /\ pc = "to_excel"
    /\ Len(rows) = 3
    /\ disk.rows = Front(rows)

\* C2: a document whose extracted text is empty (a failed read included)
\* gets exactly ("Unknown", "Unknown", "Unknown Department", "Unknown",
\* "Unknown") and llm.invoke is not called for it.
C2_EmptyTextGivesSentinels ==
    /\ (pc \in {"analyze", "append", "to_excel"} /\ doc.read = "raise")
           => text = <<>>
    /\ (pc \in {"append", "to_excel"} /\ text = <<>>) =>
        /\ meta = TheSentinels
        /\ calls = 0
        /\ response.kind = "none"

\* a document whose read failed has been analyzed
C2_Witness ==
    /\ pc = "append"
    /\ doc.read = "raise"
    /\ meta = TheSentinels
    /\ calls = 0

\* the stems the reconciler is given: of the input folder, of the results file
C3_Inputs == {splitext0(f) : f \in {g \in listdir(tree) : EndsWith(g, DotDocx)}}

C3_Results ==
    {splitext0(astype_str(disk.rows[i].Filename)) : i \in 1..Len(disk.rows)}

\* C3: with I the stems of the input folder's .docx names and R the stems
\* of the results file's first column, the reconciler reports missing =
\* I \ R and extra = R \ I, which are disjoint, and when it is done the
\* copied files are exactly the input files whose stem is in missing; no
\* file whose stem is in R is copied.
C3_Differences ==
    /\ pc \in {"r_copy", "r_done"} =>
        /\ missing_in_results = C3_Inputs \ C3_Results
        /\ extra_in_results = C3_Results \ C3_Inputs
        /\ missing_in_results \cap extra_in_results = {}
    /\ pc \in {"r_copy", "r_done", "r_crash"} =>
        \A f \in unprocessed :
            /\ f \in input_files
            /\ splitext0(f) \in C3_Inputs \ C3_Results
            /\ splitext0(f) \notin C3_Results
    /\ pc = "r_done" =>
        \A f \in input_files :
            f \in unprocessed <=> splitext0(f) \in C3_Inputs \ C3_Results

\* one stem missing, one extra, one in both: only the missing file is copied
C3_Witness ==
    /\ pc = "r_done"
    /\ missing_in_results = {<<"a">>}
    /\ extra_in_results = {<<"c">>}
    /\ unprocessed = {F_a_docx}
    /\ D_d_docx \in input_files

\* a document's failures, its row, and the steps of its processing
C4_DocumentFailed ==
    \/ doc.read = "raise"
    \/ response.kind = "raise"
    \/ /\ response.kind = "reply"
       /\ ~IsJSON(response.content)
       /\ \/ \A i \in 1..Len(response.content) :
                 response.content[i].t \notin {"{", "}"}
          \/ ~IsJSON(BraceMatch(response.content))

C4_OneRowEach ==
    /\ pc \in {"walk", "extract", "analyze", "append", "to_excel", "finish"} =>
        /\ calls <= 1
        /\ NamesOf(rows) =
               FnamesOf(IF pc \in {"extract", "analyze", "append"}
                        THEN Front(processed) ELSE processed)
    /\ (pc \in {"append", "to_excel"} /\ C4_DocumentFailed) => meta = TheSentinels
    /\ (pc = "to_excel" /\ C4_DocumentFailed) =>
        Last(rows) = [Filename |-> fnameOf(cur),
                      State |-> <<"Unknown">>,
                      Location |-> <<"Unknown">>,
                      Department |-> <<"Unknown", " ", "Department">>,
                      AuditConductedYear |-> <<"Unknown">>,
                      FinancialYear |-> <<"Unknown">>]

C4_GoesOn ==
    /\ pc = "extract" => pc' = "analyze"
    /\ pc = "analyze" => pc' = "append"
    /\ pc = "append" => (pc' = "to_excel" /\ Len(rows') = Len(rows) + 1)
    /\ (pc = "to_excel" /\ ~failed') => (pc' = "walk" /\ rows' = rows)

\* C4: a document whose read fails, whose model call fails or whose reply
\* cannot be parsed still goes from extraction to its row: no step of its
\* processing enters the except clause, exactly one row is appended for it,
\* with the five sentinels, the model is called at most once for it, and
\* the loop goes on to the next file.
C4_FailuresDoNotStopTheBatch == []C4_OneRowEach /\ [][C4_GoesOn]_vars

\* after a document whose model call failed, the next document is taken up
C4_Witness ==
    /\ pc = "extract"
    /\ Len(processed) = 2
    /\ Len(rows) = 1
    /\ rows[1].State = <<"Unknown">>
    /\ rows[1].Department = <<"Unknown", " ", "Department">>
    /\ disk.rows = rows

\* C5: when a failure-free run has ended, every file of the tree, at any
\* depth, whose name ends in ".docx" in any letter-case has a row in the
\* results file, and the file is the single placeholder row when the tree
\* holds no such file.
C5_WholeTreeCovered ==
    (pc = "exit" /\ ~failed) =>
        /\ \A p \in tree :
               IsDocx(fnameOf(p)) =>
                   (\E i \in 1..Len(disk.rows) : disk.rows[i].Filename = fnameOf(p))
        /\ (\A p \in tree : ~IsDocx(fnameOf(p))) => disk.rows = <<BlankRow>>

\* C6: once the run has failed and the except clause is over, the results
\* file holds the placeholder row alone and the exception has not left the
\* script.
C6_FailureLeavesBlankRow ==
    (failed /\ pc # "except") =>
        /\ pc # "traceback"
        /\ disk = File(<<BlankRow>>)

\* the first brace-delimited object of a reply
C7_FirstOpen(toks) ==
    CHOOSE i \in 1..Len(toks) :
        /\ toks[i].t = "{"
        /\ \A j \in 1..(i - 1) : toks[j].t # "{"

C7_FirstClose(toks) ==
    CHOOSE i \in (C7_FirstOpen(toks) + 1)..Len(toks) :
        /\ toks[i].t = "}"
        /\ \A j \in (C7_FirstOpen(toks) + 1)..(i - 1) : toks[j].t # "}"

C7_FirstObject(toks) == SubSeq(toks, C7_FirstOpen(toks), C7_FirstClose(toks))

C7_HoldsObject(toks) ==
    /\ \E i \in 1..Len(toks) : toks[i].t = "{"
    /\ \E i \in (C7_FirstOpen(toks) + 1)..Len(toks) : toks[i].t = "}"
    /\ IsJSONObject(C7_FirstObject(toks))

\* C7: for a reply that is not JSON as a whole and holds an object, the
\* result is the fields of the first brace-delimited object of the reply,
\* whatever surrounds it.
C7_FirstObjectExtracted ==
    (/\ pc = "a_done"
     /\ response.kind = "reply"
     /\ ~IsJSON(response.content)
     /\ C7_HoldsObject(response.content)) =>
        meta = Fields(C7_FirstObject(response.content))

\* a key's presence and value in an object, and the padded values trimmed
C8_Present(obj, k) == \E i \in 2..(Len(obj) - 1) : obj[i].key = k

C8_ValueOf(obj, k) ==
    obj[CHOOSE i \in 2..(Len(obj) - 1) :
            /\ obj[i].key = k
            /\ \A j \in (i + 1)..(Len(obj) - 1) : obj[j].key # k].value.val

C8_Trimmed(k) ==
    CASE k = "state" -> <<"Kerala">>
      [] k = "location" -> <<"MG">>
      [] k = "department" -> <<"Unknown", " ", "Department">>
      [] k = "audit_conducted_year" -> <<"Unviable">>
      [] k = "financial_year" -> <<"Unviable">>

C9_Matches(loc) == {i \in 1..Len(loc) : KeywordAt(loc, i)}

C9_Claimed(loc) ==
    IF "," \in Range(loc) THEN strip(AfterLastComma(loc))
    ELSE IF C9_Matches(loc) # {}
    THEN strip(SubSeq(loc, 1,
             (CHOOSE i \in C9_Matches(loc) : \A j \in C9_Matches(loc) : i <= j) - 1))
    ELSE strip(loc)

\* C9: clean_location gives the trimmed text after the last comma when
\* there is a comma; otherwise the text before the first whole-word
\* highway, road, street, main or lane (in any letter-case), trimmed;
\* otherwise the text trimmed.
C9_CleanLocation == pc = "c_done" => cleaned = C9_Claimed(location)

\* C10: when the reconciler has run on the results file of a failure-free
\* extractor run that processed at least one document of the same folder,
\* nothing is missing, nothing is extra and nothing has been copied.
C10_ScriptsAgree ==
    (pc = "r_done" /\ ~failed /\ processed # <<>>) =>
        /\ missing_in_results = {}
        /\ extra_in_results = {}
        /\ unprocessed = {}

====
